---- MODULE Spec2Model ----
(***************************************************************************)
(* Model of app.py: a Flask application that keeps, per browser session,   *)
(* the chunks and filenames of up to three uploaded PDFs (session_data)    *)
(* and a retriever over them (user_retrievers), and answers questions      *)
(* through a retrieval chain followed by a follow-up-question prompt.      *)
(*                                                                         *)
(* Texts (file names, model output) are sequences of one-character         *)
(* strings, so that the string operations of the code can be computed.     *)
(* A retriever is represented by the chunk sequence it was built from.     *)
(***************************************************************************)
EXTENDS Integers, Sequences, FiniteSets, TLC

VARIABLES session_data, user_retrievers, startup, response, seen,
          accepted, parse_call, threads

vars == <<session_data, user_retrievers, startup, response, seen,
          accepted, parse_call, threads>>

(* The state of the application proper: the two maps and the loaded models *)
app == <<session_data, user_retrievers, startup>>

----------------------------------------------------------------------------
(* Bounds of the model *)

MaxChunksPerDoc == 1

MaxTextLen == 5

MaxInFlight == 2

(* Program constant: the upload limit *)
MaxFiles == 3

(* Session identifiers issued by make_session_permanent *)
SessionIds == {"s1", "s2"}

----------------------------------------------------------------------------
(* Characters and texts *)

NL == "\n"

IsDigit(c) == c \in {"0", "1", "2", "3", "4", "5", "6", "7", "8", "9"}

IsSpace(c) == c \in {" ", "\t", "\n", "\r"}

RECURSIVE JoinLines(_)
JoinLines(ls) ==
    IF ls = <<>> THEN <<>>
    ELSE IF Len(ls) = 1 THEN ls[1]
    ELSE ls[1] \o <<NL>> \o JoinLines(Tail(ls))

----------------------------------------------------------------------------
(* parse_questions *)

AtLineStart(t, p) == p = 1 \/ t[p - 1] = NL

RECURSIVE DigitsEnd(_, _)
DigitsEnd(t, p) ==
    IF p <= Len(t) /\ IsDigit(t[p]) THEN DigitsEnd(t, p + 1) ELSE p

RECURSIVE LineEnd(_, _)
LineEnd(t, p) ==
    IF p <= Len(t) /\ t[p] # NL THEN LineEnd(t, p + 1) ELSE p

(* Length of the prefix of t at p matched by \d+\.\s, or 0 when none *)
NumeralPrefixEnd(t, p) ==
    LET d == DigitsEnd(t, p)
    IN IF d > p /\ d + 1 <= Len(t) /\ t[d] = "." /\ IsSpace(t[d + 1])
       THEN d + 2
       ELSE 0

(* First position after a match of ^\d+\.\s.* starting at p, or 0 *)
MatchEnd(t, p) ==
    IF AtLineStart(t, p) /\ NumeralPrefixEnd(t, p) # 0
    THEN LineEnd(t, NumeralPrefixEnd(t, p))
    ELSE 0

RECURSIVE FindAll(_, _)
FindAll(t, p) ==
    IF p > Len(t) THEN <<>>
    ELSE IF MatchEnd(t, p) # 0
         THEN <<SubSeq(t, p, MatchEnd(t, p) - 1)>> \o FindAll(t, MatchEnd(t, p))
         ELSE FindAll(t, p + 1)

RECURSIVE LStrip(_)
LStrip(t) == IF t # <<>> /\ IsSpace(Head(t)) THEN LStrip(Tail(t)) ELSE t

RECURSIVE RStrip(_)
RStrip(t) ==
    IF t # <<>> /\ IsSpace(t[Len(t)]) THEN RStrip(SubSeq(t, 1, Len(t) - 1)) ELSE t

Strip(t) == RStrip(LStrip(t))

SubNumeral(q) ==
    IF NumeralPrefixEnd(q, 1) # 0 THEN SubSeq(q, NumeralPrefixEnd(q, 1), Len(q)) ELSE q

parse_questions(response_content) ==
    LET questions == FindAll(response_content, 1)
    IN [i \in 1..Len(questions) |-> Strip(SubNumeral(questions[i]))]

----------------------------------------------------------------------------
(* File names *)

EndsWith(t, suffix) ==
    /\ Len(t) >= Len(suffix)
    /\ SubSeq(t, Len(t) - Len(suffix) + 1, Len(t)) = suffix

DotPdf == <<".", "p", "d", "f">>

(* file.filename == '' or not file.filename.endswith('.pdf') *)
InvalidPdfName(name) == name = <<>> \/ ~EndsWith(name, DotPdf)

RECURSIVE JoinWords(_)
JoinWords(t) ==
    IF t = <<>> THEN <<>>
    ELSE IF IsSpace(Head(t)) THEN <<"_">> \o JoinWords(LStrip(t))
    ELSE <<Head(t)>> \o JoinWords(Tail(t))

RECURSIVE StripDots(_)
StripDots(t) ==
    IF t # <<>> /\ Head(t) \in {".", "_"} THEN StripDots(Tail(t))
    ELSE IF t # <<>> /\ t[Len(t)] \in {".", "_"} THEN StripDots(SubSeq(t, 1, Len(t) - 1))
    ELSE t

(* werkzeug's secure_filename on names of letters, dots and blanks:
   "_".join(filename.split()) stripped of leading and trailing "." and "_" *)
secure_filename(name) == StripDots(JoinWords(Strip(name)))

FileNames ==
    { <<>>,
      <<"a", ".", "t", "x", "t">>,
      <<"b", " ", "c", ".", "p", "d", "f">> }

(* request.files: with or without a 'file' part *)
UploadRequests ==
    {[has_file |-> FALSE, filename |-> <<>>]}
        \cup {[has_file |-> TRUE, filename |-> f] : f \in FileNames}

(* request JSON: data.get('question') is None or a string *)
Questions ==
    { [present |-> FALSE, text |-> <<>>],
      [present |-> TRUE, text |-> <<>>],
      [present |-> TRUE, text |-> <<" ">>],
      [present |-> TRUE, text |-> <<"q", "?">>] }

(* not question *)
NotQuestion(question) == ~question.present \/ question.text = <<>>

----------------------------------------------------------------------------
(* Texts the completion provider may return for the follow-up prompt *)

Numbered(n, body) == <<n, ".", " ">> \o body

LineA == Numbered("1", <<"a", "?">>)
LineB == Numbered("2", <<"b", "?">>)
LineC == Numbered("3", <<"c", "?">>)
LineD == Numbered("4", <<"d", "?">>)
Prose == <<"S", "u", "r", "e", ":">>

LlmOutputs ==
    { Prose,
      JoinLines(<<LineA, LineB, LineC>>),
      JoinLines(<<Prose, LineA, LineB>>),
      JoinLines(<<LineA, LineB, LineC, LineD>>) }

(* parse_questions(response.content) for each of these texts *)
Parsed == [output \in LlmOutputs \cup {<<>>} |-> parse_questions(output)]

(* secure_filename(file.filename) for each of the request file names *)
Secured == [name \in FileNames |-> secure_filename(name)]

----------------------------------------------------------------------------
(* The two process-wide maps *)

EmptySession == [chunks |-> <<>>, filenames |-> <<>>]

(* if session_id not in session_data: session_data[session_id] = {...} *)
GetOrCreate(sd, s) ==
    IF s \in DOMAIN sd THEN sd
    ELSE [x \in DOMAIN sd \cup {s} |-> IF x = s THEN EmptySession ELSE sd[x]]

(* Seeded fault (C1): the limit test is strict *)
LimitReachedOffByOne(filenames) == Len(filenames) > MaxFiles

(* len(session_data[session_id]['filenames']) >= 3 *)
LimitReached(filenames) == Len(filenames) >= MaxFiles

(* user_retrievers[session_id] = vector_store.as_retriever() *)
StoreRetriever(ur, s, retriever) ==
    [x \in DOMAIN ur \cup {s} |-> IF x = s THEN retriever ELSE ur[x]]

(* dict.pop(session_id, None) *)
Pop(m, s) == [x \in DOMAIN m \ {s} |-> m[x]]

(* Seeded fault (C8): only the chunks are dropped, the entry stays *)
ClearChunksOnly(sd, s) ==
    IF s \in DOMAIN sd THEN [sd EXCEPT ![s].chunks = <<>>] ELSE sd

(* Seeded fault (C9): the entry is reset to an empty one, not removed *)
ResetSessionData(sd, s) ==
    [x \in DOMAIN sd \cup {s} |-> IF x = s THEN EmptySession ELSE sd[x]]

(* session_data.pop(session_id, None) *)
ClearSessionData(sd, s) == Pop(sd, s)

(* Seeded fault (C7): user_retrievers.clear() *)
ClearAllRetrievers(ur, s) == <<>>

(* user_retrievers.pop(session_id, None) *)
ClearRetriever(ur, s) == Pop(ur, s)

(* Seeded fault (C6): the guard is missing *)
NoRetrieverUnchecked(ur, s) == FALSE

(* session_id not in user_retrievers *)
NoRetriever(ur, s) == s \notin DOMAIN ur

(* FAISS.from_documents(all_chunks, embeddings): raises when the embedding
   provider fails, when `embeddings` was never bound at startup, and when
   there is no chunk to embed (the index dimension is read off the first
   embedding) *)
FaissFromDocuments(all_chunks, embeddings_bound, embed_ok) ==
    IF embeddings_bound /\ embed_ok /\ all_chunks # <<>>
    THEN [raised |-> FALSE, retriever |-> all_chunks]
    ELSE [raised |-> TRUE, retriever |-> <<>>]

(* loader.load() and split_documents: the n chunks of the saved file *)
NewChunks(s, filename, n) ==
    [i \in 1..n |-> [source |-> <<s, filename>>, part |-> i]]

UploadFaults == {"none", "save", "load", "embed"}

(* Seeded fault (C4): a failed build drops the stored retriever *)
UploadTryDropIndex(sd, ur, s, name, n, fault, embeddings_bound) ==
    LET filename == Secured[name]
        new_chunks == NewChunks(s, filename, n)
        sd2 == [sd EXCEPT ![s] = [chunks |-> @.chunks \o new_chunks,
                                  filenames |-> Append(@.filenames, filename)]]
        all_chunks == sd2[s].chunks
        built == FaissFromDocuments(all_chunks, embeddings_bound, fault # "embed")
    IN IF fault = "save" THEN [sd |-> sd, ur |-> ur, stage |-> "save"]
       ELSE IF fault = "load" THEN [sd |-> sd, ur |-> ur, stage |-> "load"]
       ELSE IF built.raised THEN [sd |-> sd2, ur |-> Pop(ur, s), stage |-> "index"]
       ELSE [sd |-> sd2, ur |-> StoreRetriever(ur, s, built.retriever), stage |-> "none"]

(* Seeded fault (C5): the filename is appended before the file is loaded *)
UploadTryCommitFirst(sd, ur, s, name, n, fault, embeddings_bound) ==
    LET filename == Secured[name]
        new_chunks == NewChunks(s, filename, n)
        sd1 == [sd EXCEPT ![s].filenames = Append(@, filename)]
        sd2 == [sd1 EXCEPT ![s].chunks = @ \o new_chunks]
        all_chunks == sd2[s].chunks
        built == FaissFromDocuments(all_chunks, embeddings_bound, fault # "embed")
    IN IF fault = "save" THEN [sd |-> sd, ur |-> ur, stage |-> "save"]
       ELSE IF fault = "load" THEN [sd |-> sd1, ur |-> ur, stage |-> "load"]
       ELSE IF built.raised THEN [sd |-> sd2, ur |-> ur, stage |-> "index"]
       ELSE [sd |-> sd2, ur |-> StoreRetriever(ur, s, built.retriever), stage |-> "none"]

(* The try block of upload_file. stage is where it raised ("none": it did
   not). sd already holds an entry for s. *)
UploadTry(sd, ur, s, name, n, fault, embeddings_bound) ==
    LET filename == Secured[name]
        new_chunks == NewChunks(s, filename, n)
        sd2 == [sd EXCEPT ![s] = [chunks |-> @.chunks \o new_chunks,
                                  filenames |-> Append(@.filenames, filename)]]
        all_chunks == sd2[s].chunks
        built == FaissFromDocuments(all_chunks, embeddings_bound, fault # "embed")
    IN IF fault = "save" THEN [sd |-> sd, ur |-> ur, stage |-> "save"]
       ELSE IF fault = "load" THEN [sd |-> sd, ur |-> ur, stage |-> "load"]
       ELSE IF built.raised THEN [sd |-> sd2, ur |-> ur, stage |-> "index"]
       ELSE [sd |-> sd2, ur |-> StoreRetriever(ur, s, built.retriever), stage |-> "none"]

----------------------------------------------------------------------------
(* Responses *)

ErrLimit == "You have already uploaded the maximum of 3 PDFs."
ErrNoFile == "No file part"
ErrBadName == "Please select a valid PDF file"
ErrProcess == "Failed to process the PDF file."
ErrNoDocument == "Please upload a document first."
ErrNoQuestion == "No question provided"
ErrQA == "An error occurred while generating the answer."

(* What the last request was and what it returned. fault (the failure of a
   collaborator during the request), stage (where a try block raised),
   llm_calls (completion calls issued by the request), retriever (the index
   an ask queried) and question record the request's course. *)
Response(op, sid, code, error) ==
    [op |-> op, sid |-> sid, code |-> code, error |-> error, fault |-> "none",
     stage |-> "none", llm_calls |-> 0, retriever |-> <<>>, question |-> <<>>, answered |-> FALSE,
     suggestions |-> <<>>, uploaded_files |-> <<>>]

----------------------------------------------------------------------------
(* upload_file *)

upload_file(s, req, n, fault) ==
    LET sd1 == GetOrCreate(session_data, s)
        try == UploadTry(sd1, user_retrievers, s, req.filename, n, fault,
                         startup # "embeddings_failed")
    IN /\ seen' = seen \cup {s}
       /\ UNCHANGED startup
       /\ IF LimitReached(sd1[s].filenames)
          THEN /\ session_data' = sd1
               /\ UNCHANGED user_retrievers
               /\ response' = Response("upload", s, 400, ErrLimit)
          ELSE IF ~req.has_file
          THEN /\ session_data' = sd1
               /\ UNCHANGED user_retrievers
               /\ response' = Response("upload", s, 400, ErrNoFile)
          ELSE IF InvalidPdfName(req.filename)
          THEN /\ session_data' = sd1
               /\ UNCHANGED user_retrievers
               /\ response' = Response("upload", s, 400, ErrBadName)
          ELSE /\ session_data' = try.sd
               /\ user_retrievers' = try.ur
               /\ response' =
                    IF try.stage = "none"
                    THEN [Response("upload", s, 200, "") EXCEPT
                            !.fault = fault,
                            !.uploaded_files = try.sd[s].filenames]
                    ELSE [Response("upload", s, 500, ErrProcess) EXCEPT
                            !.fault = fault,
                            !.stage = try.stage]

(* The faults are read only once the try block runs, and the file's content
   only once it is saved and loaded *)
Upload ==
    \E s \in SessionIds, req \in UploadRequests :
        \E fault \in IF ~req.has_file \/ InvalidPdfName(req.filename)
                      THEN {"none"} ELSE UploadFaults :
            \E n \in IF ~req.has_file \/ InvalidPdfName(req.filename)
                         \/ fault \in {"save", "load"}
                      THEN {0} ELSE 0..MaxChunksPerDoc :
                /\ upload_file(s, req, n, fault)
                /\ UNCHANGED <<accepted, parse_call, threads>>

----------------------------------------------------------------------------
(* ask_question *)

AskFaults == {"none", "retrieve", "answer", "followup"}

(* Seeded fault (C13): a failure of the follow-up call is swallowed *)
AskTrySwallowFollowup(ur, s, fault, models_ok) ==
    IF s \notin DOMAIN ur THEN [stage |-> "lookup", llm_calls |-> 0]
    ELSE IF ~models_ok THEN [stage |-> "chain", llm_calls |-> 0]
    ELSE IF fault = "retrieve" THEN [stage |-> "retrieve", llm_calls |-> 0]
    ELSE IF fault = "answer" THEN [stage |-> "answer", llm_calls |-> 1]
    ELSE [stage |-> "none", llm_calls |-> 2]

(* The try block of ask_question: the stage where it raised, and the number
   of completion calls issued up to there *)
AskTry(ur, s, fault, models_ok) ==
    IF s \notin DOMAIN ur THEN [stage |-> "lookup", llm_calls |-> 0]
    ELSE IF ~models_ok THEN [stage |-> "chain", llm_calls |-> 0]
    ELSE IF fault = "retrieve" THEN [stage |-> "retrieve", llm_calls |-> 0]
    ELSE IF fault = "answer" THEN [stage |-> "answer", llm_calls |-> 1]
    ELSE IF fault = "followup" THEN [stage |-> "followup", llm_calls |-> 2]
    ELSE [stage |-> "none", llm_calls |-> 2]

ask_question(s, question, fault, output) ==
    LET try == AskTry(user_retrievers, s, fault, startup = "ok")
        used == IF s \in DOMAIN user_retrievers /\ try.stage \notin {"lookup", "chain"}
                THEN user_retrievers[s] ELSE <<>>
    IN /\ seen' = seen \cup {s}
       /\ UNCHANGED <<session_data, user_retrievers, startup>>
       /\ IF NoRetriever(user_retrievers, s)
          THEN response' = Response("ask", s, 400, ErrNoDocument)
          ELSE IF NotQuestion(question)
          THEN response' = [Response("ask", s, 400, ErrNoQuestion) EXCEPT
                              !.question = question.text]
          ELSE IF try.stage # "none"
          THEN response' = [Response("ask", s, 500, ErrQA) EXCEPT
                              !.question = question.text,
                              !.fault = fault,
                              !.stage = try.stage,
                              !.llm_calls = try.llm_calls,
                              !.retriever = used]
          ELSE response' = [Response("ask", s, 200, "") EXCEPT
                              !.question = question.text,
                              !.fault = fault,
                              !.llm_calls = try.llm_calls,
                              !.retriever = used,
                              !.answered = TRUE,
                              !.suggestions = Parsed[output]]

(* The faults are read only once the try block runs, and the follow-up
   output exists only when both completion calls returned *)
Ask ==
    \E s \in SessionIds, question \in Questions :
        \E fault \in IF NotQuestion(question) THEN {"none"} ELSE AskFaults :
            \E output \in IF fault = "none" /\ ~NotQuestion(question)
                           THEN LlmOutputs ELSE {<<>>} :
                /\ ask_question(s, question, fault, output)
                /\ UNCHANGED <<accepted, parse_call, threads>>

----------------------------------------------------------------------------
(* clear_session *)

clear_session(s) ==
    /\ session_data' = ClearSessionData(session_data, s)
    /\ user_retrievers' = ClearRetriever(user_retrievers, s)
    /\ response' = Response("clear", s, 200, "")
    /\ UNCHANGED <<startup, seen>>

Clear ==
    \E s \in SessionIds :
        /\ clear_session(s)
        /\ UNCHANGED <<accepted, parse_call, threads>>

----------------------------------------------------------------------------
(* Module load: both maps empty; the models loaded, or the except branch of
   the startup try block taken at the embeddings or at the llm constructor *)

StartupStates == {"ok", "embeddings_failed", "llm_failed"}

(* No call of parse_questions under way *)
NoParseCall == [response_content |-> <<>>, returned |-> FALSE, questions |-> <<>>]

(* A request slot of the server with no request in it. A running handler
   holds its position (pc), its session and its local variables; acked is
   what the session had been told it uploaded when an ask started. *)
Idle == [pc |-> "idle", sid |-> "", filename |-> <<>>, new_chunks |-> <<>>,
         all_chunks |-> <<>>, question |-> <<>>, acked |-> <<>>]

RequestSlots == 1..MaxInFlight

InitApp ==
    /\ session_data = <<>>
    /\ user_retrievers = <<>>
    /\ startup \in StartupStates
    /\ response = Response("none", "", 0, "")
    /\ seen = {}
    /\ accepted = [s \in SessionIds |-> <<>>]
    /\ threads = [t \in RequestSlots |-> Idle]

Init ==
    /\ InitApp
    /\ parse_call = NoParseCall

Next == Upload \/ Ask \/ Clear

Spec == Init /\ [][Next]_vars

----------------------------------------------------------------------------
(* A session's filenames, chunks and index as the handlers read them: a
   session without an entry has none *)

FilenamesOf(sd, s) == IF s \in DOMAIN sd THEN sd[s].filenames ELSE <<>>

ChunksOf(sd, s) == IF s \in DOMAIN sd THEN sd[s].chunks ELSE <<>>

SameIndex(ur1, ur2, s) ==
    /\ (s \in DOMAIN ur1) = (s \in DOMAIN ur2)
    /\ s \in DOMAIN ur1 => ur1[s] = ur2[s]

SameSession(sd1, sd2, s) ==
    /\ FilenamesOf(sd1, s) = FilenamesOf(sd2, s)
    /\ ChunksOf(sd1, s) = ChunksOf(sd2, s)

SameEntry(sd1, sd2, s) ==
    /\ (s \in DOMAIN sd1) = (s \in DOMAIN sd2)
    /\ s \in DOMAIN sd1 => sd1[s] = sd2[s]

(* The step taken is a request of kind op (response' records the request) *)
Did(op) == response'.op = op

----------------------------------------------------------------------------
(* C1: a session never holds more than 3 filenames, and an upload made when
   it holds 3 fails with the upload-limit error and leaves the session's
   filenames, chunks and index as they were. *)
C1_UploadLimit ==
    [][ /\ \A s \in SessionIds : Len(FilenamesOf(session_data', s)) <= 3
        /\ (Did("upload") /\ Len(FilenamesOf(session_data, response'.sid)) = 3)
              => /\ response'.code = 400
                 /\ response'.error = ErrLimit
                 /\ SameSession(session_data, session_data', response'.sid)
                 /\ SameIndex(user_retrievers, user_retrievers', response'.sid) ]_vars

C1_Witness ==
    /\ response.op = "upload"
    /\ response.error = ErrLimit
    /\ Len(FilenamesOf(session_data, response.sid)) = 3

(* C2: an index, when present, was built from exactly the session's full
   current chunk sequence. *)
C2_IndexCoversAllChunks ==
    \A s \in DOMAIN user_retrievers : user_retrievers[s] = ChunksOf(session_data, s)

(* C3: an upload that returns a failure leaves the session's filenames and
   chunks as they were before the call. *)
C3_FailedUploadCommitsNothing ==
    [][ (Did("upload") /\ response'.code # 200)
            => SameSession(session_data, session_data', response'.sid) ]_vars

(* C4: when the index build fails in an upload, the upload is reported as
   failed and the index stored for the session is the previous one (or none,
   if there was none); an ask queries the index stored for its session. *)
C4_IndexBuildFailureKeepsIndex ==
    [][ /\ (Did("upload") /\ response'.stage = "index")
              => /\ response'.code = 500
                 /\ user_retrievers' = user_retrievers
        /\ (Did("ask") /\ response'.stage \in {"none", "retrieve", "answer", "followup"}
                       /\ response'.code # 400)
              => /\ response'.sid \in DOMAIN user_retrievers
                 /\ response'.retriever = user_retrievers[response'.sid] ]_vars

C4_Witness ==
    /\ response.op = "upload"
    /\ response.stage = "index"
    /\ response.sid \in DOMAIN user_retrievers
    /\ user_retrievers[response.sid] # ChunksOf(session_data, response.sid)

(* C5: when text extraction fails in an upload, the upload is rejected, no
   chunk and no filename of the document is committed, and the index map is
   unchanged. *)
C5_ExtractionFailureCommitsNothing ==
    [][ (Did("upload") /\ response'.stage = "load")
            => /\ response'.code = 500
               /\ \A s \in SessionIds : SameSession(session_data, session_data', s)
               /\ user_retrievers' = user_retrievers ]_vars

C5_Witness ==
    /\ response.op = "upload"
    /\ response.stage = "load"
    /\ Len(FilenamesOf(session_data, response.sid)) = 2

(* C6: an ask on a session without an index fails with the upload-first
   error and issues no completion call. *)
C6_AskWithoutIndex ==
    (response.op = "ask" /\ response.sid \notin DOMAIN user_retrievers)
        => /\ response.code = 400
           /\ response.error = ErrNoDocument
           /\ response.llm_calls = 0
           /\ ~response.answered

C6_Witness ==
    /\ response.op = "ask"
    /\ response.error = ErrNoDocument
    /\ Len(FilenamesOf(session_data, response.sid)) >= 1

(* C7: a request of session s leaves the entries of every other session in
   both maps unchanged, and an ask queries an index made of chunks of its own
   session only. *)
C7_SessionIsolation ==
    [][ /\ \A t \in SessionIds \ {response'.sid} :
              /\ SameEntry(session_data, session_data', t)
              /\ SameIndex(user_retrievers, user_retrievers', t)
        /\ \A t \in DOMAIN user_retrievers' :
              \A i \in 1..Len(user_retrievers'[t]) : user_retrievers'[t][i].source[1] = t
        /\ Did("ask") =>
              \A i \in 1..Len(response'.retriever) :
                  response'.retriever[i].source[1] = response'.sid ]_vars

C7_Witness ==
    /\ response.op = "ask"
    /\ response.code = 200
    /\ response.retriever # <<>>
    /\ \E t \in SessionIds \ {response.sid} :
          /\ t \in DOMAIN user_retrievers
          /\ Len(FilenamesOf(session_data, t)) = 2

(* C8: clear_session succeeds and leaves the session without filenames,
   chunks and index; a second clear changes nothing and returns the same; an
   upload right after a clear is not refused for the limit and, when it
   succeeds, is the session's first file. *)
C8_ClearIdempotent ==
    [][ /\ Did("clear")
              => /\ response'.code = 200
                 /\ response'.error = ""
                 /\ response'.sid \notin DOMAIN session_data'
                 /\ response'.sid \notin DOMAIN user_retrievers'
        /\ (Did("clear") /\ response.op = "clear" /\ response.sid = response'.sid)
              => /\ session_data' = session_data
                 /\ user_retrievers' = user_retrievers
                 /\ response' = response
        /\ (Did("upload") /\ response.op = "clear" /\ response.sid = response'.sid)
              => /\ response'.error # ErrLimit
                 /\ response'.code = 200 => Len(response'.uploaded_files) = 1 ]_vars

C8_Witness ==
    /\ response.op = "clear"
    /\ response.sid \in seen
    /\ \E t \in SessionIds \ {response.sid} :
          Len(FilenamesOf(session_data, t)) = 3

(* C9: clear_session on a session that never uploaded or asked succeeds and
   leaves both maps unchanged. *)
C9_ClearUnseenSession ==
    [][ (Did("clear") /\ response'.sid \notin seen)
            => /\ response'.code = 200
               /\ session_data' = session_data
               /\ user_retrievers' = user_retrievers ]_vars

C9_Witness ==
    /\ response.op = "clear"
    /\ response.sid \notin seen
    /\ DOMAIN user_retrievers # {}

(* C10: a successful ask returns at most 3 suggestions. *)
C10_AtMostThreeSuggestions ==
    (response.op = "ask" /\ response.code = 200) => Len(response.suggestions) <= 3

(* C11: a request rejected for a client input error (no file part, a name
   that is not a PDF's, the upload limit, an empty question) leaves both maps
   exactly as they were, the set of sessions with an entry included. *)
C11_ClientErrorsMutateNothing ==
    [][ ( \/ Did("upload") /\ response'.error \in {ErrNoFile, ErrBadName, ErrLimit}
          \/ Did("ask") /\ response'.error = ErrNoQuestion )
            => /\ session_data' = session_data
               /\ user_retrievers' = user_retrievers ]_vars

(* C12: when a model failed to load at startup, no upload and no ask is
   served as successful, and none creates or changes a session's filenames,
   chunks or index. *)
C12_DegradedRefusesRequests ==
    [][ (startup # "ok" /\ (Did("upload") \/ Did("ask")))
            => /\ response'.code # 200
               /\ \A s \in SessionIds :
                     /\ SameSession(session_data, session_data', s)
                     /\ SameIndex(user_retrievers, user_retrievers', s) ]_vars

(* C13: when the completion call fails, for the answer or for the follow-up
   questions, ask returns the failure without answer or suggestions, and both
   maps are unchanged. *)
C13_CompletionFailureNoAnswer ==
    [][ (Did("ask") /\ response'.fault \in {"answer", "followup"})
            => /\ response'.code = 500
               /\ response'.error = ErrQA
               /\ ~response'.answered
               /\ response'.suggestions = <<>>
               /\ session_data' = session_data
               /\ user_retrievers' = user_retrievers ]_vars

C13_Witness ==
    /\ response.op = "ask"
    /\ response.fault = "followup"
    /\ response.llm_calls = 2
    /\ response.retriever # <<>>

(* C17: an upload whose document yields no chunk, with no collaborator
   failing, is reported as a success. *)
C17_EmptyDocumentNotAFailure ==
    [][ ( /\ Did("upload")
          /\ response'.fault = "none"
          /\ startup # "embeddings_failed"
          /\ Len(FilenamesOf(session_data', response'.sid))
                = Len(FilenamesOf(session_data, response'.sid)) + 1
          /\ ChunksOf(session_data', response'.sid)
                = ChunksOf(session_data, response'.sid) )
            => response'.code = 200 ]_vars

(* C18: an ask with a blank question (missing, empty or made of whitespace)
   on a session that has an index fails with the no-question error and
   neither queries the index nor calls the completion provider. *)
C18_BlankQuestionRejected ==
    ( /\ response.op = "ask"
      /\ response.sid \in DOMAIN user_retrievers
      /\ Strip(response.question) = <<>> )
        => /\ response.code = 400
           /\ response.error = ErrNoQuestion
           /\ response.llm_calls = 0
           /\ response.retriever = <<>>

----------------------------------------------------------------------------
(* The same handlers, with the record of what each session was told it had
   uploaded: accepted[s] holds the chunks of the documents whose upload
   returned success since the session's last clear *)

UploadRecorded ==
    \E s \in SessionIds, req \in UploadRequests :
        \E fault \in IF ~req.has_file \/ InvalidPdfName(req.filename)
                      THEN {"none"} ELSE UploadFaults :
            \E n \in IF ~req.has_file \/ InvalidPdfName(req.filename)
                         \/ fault \in {"save", "load"}
                      THEN {0} ELSE 0..MaxChunksPerDoc :
                /\ upload_file(s, req, n, fault)
                /\ accepted' =
                     IF response'.code = 200
                     THEN [accepted EXCEPT
                             ![s] = @ \o NewChunks(s, Secured[req.filename], n)]
                     ELSE accepted
                /\ UNCHANGED <<parse_call, threads>>

ClearRecorded ==
    \E s \in SessionIds :
        /\ clear_session(s)
        /\ accepted' = [accepted EXCEPT ![s] = <<>>]
        /\ UNCHANGED <<parse_call, threads>>

NextRecorded == UploadRecorded \/ Ask \/ ClearRecorded

SpecRecorded == Init /\ [][NextRecorded]_vars

(* C14: after a successful upload the session's index holds exactly the
   chunks of the documents successfully uploaded since the last clear, in
   upload order. *)
C14_IndexIsAcceptedChunks ==
    [][ (Did("upload") /\ response'.code = 200)
            => /\ response'.sid \in DOMAIN user_retrievers'
               /\ user_retrievers'[response'.sid] = accepted'[response'.sid] ]_vars

----------------------------------------------------------------------------
(* parse_questions as a function of its argument: every text of up to
   MaxTextLen characters over a digit, the period, a blank, the line break
   and a letter *)

Alphabet == {"1", ".", " ", NL, "a"}

Texts == UNION {[1..k -> Alphabet] : k \in 0..MaxTextLen}

InitParse ==
    /\ InitApp
    /\ startup = "ok"
    /\ parse_call \in {[NoParseCall EXCEPT !.response_content = t] : t \in Texts}

ParseQuestions ==
    /\ ~parse_call.returned
    /\ parse_call' = [parse_call EXCEPT
                        !.returned = TRUE,
                        !.questions = parse_questions(parse_call.response_content)]
    /\ UNCHANGED <<app, response, seen, accepted, threads>>

SpecParse == InitParse /\ [][ParseQuestions]_vars

(* The lines of a text, each with the line break that ends it *)
RECURSIVE LinesFrom(_, _)
LinesFrom(t, p) ==
    IF p > Len(t) THEN <<>>
    ELSE LET e == LineEnd(t, p)
         IN <<SubSeq(t, p, IF e > Len(t) THEN Len(t) ELSE e)>> \o LinesFrom(t, e + 1)

(* A line that begins with digits, a period and a whitespace character; the
   line break that ends the line counts as one *)
IsNumberedLine(line) == NumeralPrefixEnd(line, 1) # 0

RECURSIVE NumberedLines(_)
NumberedLines(lines) ==
    IF lines = <<>> THEN <<>>
    ELSE IF IsNumberedLine(Head(lines))
         THEN <<Strip(SubNumeral(Head(lines)))>> \o NumberedLines(Tail(lines))
         ELSE NumberedLines(Tail(lines))

(* C16: parse_questions returns, in order, exactly the numbered lines of the
   text, each without its numeral prefix (and surrounding whitespace); no
   other line is returned, and a text without numbered lines yields the
   empty sequence. *)
C16_ExactlyTheNumberedLines ==
    parse_call.returned
        => parse_call.questions = NumberedLines(LinesFrom(parse_call.response_content, 1))

----------------------------------------------------------------------------
(* The handlers as the threaded server runs them: up to MaxInFlight requests
   at a time, each a thread that other threads may overtake between two
   accesses to the shared maps. A step is one access (or a stretch of code
   that touches no shared state). *)

ErrUnhandled == "Internal Server Error"

Return(t, resp) ==
    /\ response' = resp
    /\ threads' = [threads EXCEPT ![t] = Idle]

Goto(t, pc) == threads' = [threads EXCEPT ![t].pc = pc]

(* upload_file, lines 67-69 *)
UploadStart(t, s) ==
    /\ threads[t].pc = "idle"
    /\ session_data' = GetOrCreate(session_data, s)
    /\ seen' = seen \cup {s}
    /\ threads' = [threads EXCEPT ![t] = [Idle EXCEPT !.pc = "u_check", !.sid = s]]
    /\ UNCHANGED <<user_retrievers, startup, response, accepted, parse_call>>

(* upload_file, lines 72-82; a KeyError at line 72 is raised outside the
   try block *)
UploadCheck(t, req) ==
    LET s == threads[t].sid
    IN /\ threads[t].pc = "u_check"
       /\ IF s \notin DOMAIN session_data
          THEN Return(t, [Response("upload", s, 500, ErrUnhandled) EXCEPT
                            !.stage = "limit"])
          ELSE IF LimitReached(session_data[s].filenames)
          THEN Return(t, Response("upload", s, 400, ErrLimit))
          ELSE IF ~req.has_file
          THEN Return(t, Response("upload", s, 400, ErrNoFile))
          ELSE IF InvalidPdfName(req.filename)
          THEN Return(t, Response("upload", s, 400, ErrBadName))
          ELSE /\ threads' = [threads EXCEPT ![t].pc = "u_load",
                                             ![t].filename = Secured[req.filename]]
               /\ UNCHANGED response
       /\ UNCHANGED <<app, seen, accepted, parse_call>>

(* upload_file, lines 85-93 *)
UploadLoad(t, n, fault) ==
    LET s == threads[t].sid
    IN /\ threads[t].pc = "u_load"
       /\ IF fault \in {"save", "load"}
          THEN Return(t, [Response("upload", s, 500, ErrProcess) EXCEPT
                            !.fault = fault, !.stage = fault])
          ELSE /\ threads' = [threads EXCEPT
                                ![t].pc = "u_extend",
                                ![t].new_chunks = NewChunks(s, threads[t].filename, n)]
               /\ UNCHANGED response
       /\ UNCHANGED <<app, seen, accepted, parse_call>>

(* upload_file, line 96 *)
UploadExtend(t) ==
    LET s == threads[t].sid
    IN /\ threads[t].pc = "u_extend"
       /\ IF s \notin DOMAIN session_data
          THEN /\ Return(t, [Response("upload", s, 500, ErrProcess) EXCEPT
                               !.stage = "extend"])
               /\ UNCHANGED session_data
          ELSE /\ session_data' =
                    [session_data EXCEPT ![s].chunks = @ \o threads[t].new_chunks]
               /\ Goto(t, "u_append")
               /\ UNCHANGED response
       /\ UNCHANGED <<user_retrievers, startup, seen, accepted, parse_call>>

(* upload_file, line 97 *)
UploadAppend(t) ==
    LET s == threads[t].sid
    IN /\ threads[t].pc = "u_append"
       /\ IF s \notin DOMAIN session_data
          THEN /\ Return(t, [Response("upload", s, 500, ErrProcess) EXCEPT
                               !.stage = "append"])
               /\ UNCHANGED session_data
          ELSE /\ session_data' =
                    [session_data EXCEPT
                       ![s].filenames = Append(@, threads[t].filename)]
               /\ Goto(t, "u_build")
               /\ UNCHANGED response
       /\ UNCHANGED <<user_retrievers, startup, seen, accepted, parse_call>>

(* upload_file, line 100 and the start of line 101: from_documents reads the
   texts of all_chunks before it embeds them *)
UploadBuild(t) ==
    LET s == threads[t].sid
    IN /\ threads[t].pc = "u_build"
       /\ IF s \notin DOMAIN session_data
          THEN Return(t, [Response("upload", s, 500, ErrProcess) EXCEPT
                            !.stage = "chunks"])
          ELSE /\ threads' = [threads EXCEPT ![t].pc = "u_store",
                                             ![t].all_chunks = session_data[s].chunks]
               /\ UNCHANGED response
       /\ UNCHANGED <<app, seen, accepted, parse_call>>

(* upload_file, the rest of line 101 and line 102 *)
UploadStore(t, embed_ok) ==
    LET s == threads[t].sid
        built == FaissFromDocuments(threads[t].all_chunks,
                                    startup # "embeddings_failed", embed_ok)
    IN /\ threads[t].pc = "u_store"
       /\ IF built.raised
          THEN /\ Return(t, [Response("upload", s, 500, ErrProcess) EXCEPT
                               !.fault = IF embed_ok THEN "none" ELSE "embed",
                               !.stage = "index"])
               /\ UNCHANGED user_retrievers
          ELSE /\ user_retrievers' = StoreRetriever(user_retrievers, s, built.retriever)
               /\ Goto(t, "u_respond")
               /\ UNCHANGED response
       /\ UNCHANGED <<session_data, startup, seen, accepted, parse_call>>

(* upload_file, lines 104-114 *)
UploadRespond(t) ==
    LET s == threads[t].sid
    IN /\ threads[t].pc = "u_respond"
       /\ IF s \notin DOMAIN session_data
          THEN /\ Return(t, [Response("upload", s, 500, ErrProcess) EXCEPT
                               !.stage = "respond"])
               /\ UNCHANGED accepted
          ELSE /\ Return(t, [Response("upload", s, 200, "") EXCEPT
                               !.uploaded_files = session_data[s].filenames])
               /\ accepted' = [accepted EXCEPT ![s] = @ \o threads[t].new_chunks]
       /\ UNCHANGED <<app, seen, parse_call>>

(* ask_question, lines 122-129 *)
AskStart(t, s, question) ==
    /\ threads[t].pc = "idle"
    /\ seen' = seen \cup {s}
    /\ IF NoRetriever(user_retrievers, s)
       THEN Return(t, Response("ask", s, 400, ErrNoDocument))
       ELSE IF NotQuestion(question)
       THEN Return(t, [Response("ask", s, 400, ErrNoQuestion) EXCEPT
                         !.question = question.text])
       ELSE /\ threads' = [threads EXCEPT
                             ![t] = [Idle EXCEPT !.pc = "a_run", !.sid = s,
                                                 !.question = question.text,
                                                 !.acked = accepted[s]]]
            /\ UNCHANGED response
    /\ UNCHANGED <<app, accepted, parse_call>>

(* ask_question, lines 131-147: once line 132 has read the retriever, the
   chain and the completion calls touch no shared state *)
AskRun(t, fault, output) ==
    LET s == threads[t].sid
        try == AskTry(user_retrievers, s, fault, startup = "ok")
        used == IF s \in DOMAIN user_retrievers /\ try.stage \notin {"lookup", "chain"}
                THEN user_retrievers[s] ELSE <<>>
    IN /\ threads[t].pc = "a_run"
       /\ IF try.stage # "none"
          THEN Return(t, [Response("ask", s, 500, ErrQA) EXCEPT
                            !.question = threads[t].question,
                            !.fault = fault,
                            !.stage = try.stage,
                            !.llm_calls = try.llm_calls,
                            !.retriever = used])
          ELSE Return(t, [Response("ask", s, 200, "") EXCEPT
                            !.question = threads[t].question,
                            !.fault = fault,
                            !.llm_calls = try.llm_calls,
                            !.retriever = used,
                            !.answered = TRUE,
                            !.suggestions = Parsed[output]])
       /\ UNCHANGED <<app, seen, accepted, parse_call>>

(* A clear of session s under way: the asks of s lose what they were
   promised, and the session is told nothing is uploaded any more *)
Forget(thr, s) ==
    [u \in RequestSlots |->
        IF thr[u].sid = s /\ thr[u].pc = "a_run"
        THEN [thr[u] EXCEPT !.acked = <<>>] ELSE thr[u]]

(* clear_session, lines 152-153 *)
ClearStart(t, s) ==
    /\ threads[t].pc = "idle"
    /\ session_data' = ClearSessionData(session_data, s)
    /\ threads' = [Forget(threads, s) EXCEPT
                     ![t] = [Idle EXCEPT !.pc = "c_pop", !.sid = s]]
    /\ accepted' = [accepted EXCEPT ![s] = <<>>]
    /\ UNCHANGED <<user_retrievers, startup, response, seen, parse_call>>

(* clear_session, lines 154-156 *)
ClearFinish(t) ==
    LET s == threads[t].sid
    IN /\ threads[t].pc = "c_pop"
       /\ user_retrievers' = ClearRetriever(user_retrievers, s)
       /\ response' = Response("clear", s, 200, "")
       /\ threads' = [Forget(threads, s) EXCEPT ![t] = Idle]
       /\ accepted' = [accepted EXCEPT ![s] = <<>>]
       /\ UNCHANGED <<session_data, startup, seen, parse_call>>

(* The requests in flight are those of one client: handlers of different
   sessions share no entry of either map *)
ThreadedSessions == {"s1"}

NextThreaded ==
    \E t \in RequestSlots :
        \/ \E s \in ThreadedSessions : UploadStart(t, s)
        \/ \E req \in UploadRequests : UploadCheck(t, req)
        \/ \E n \in 0..MaxChunksPerDoc : UploadLoad(t, n, "none")
        \/ \E fault \in {"save", "load"} : UploadLoad(t, 0, fault)
        \/ UploadExtend(t)
        \/ UploadAppend(t)
        \/ UploadBuild(t)
        \/ \E embed_ok \in BOOLEAN : UploadStore(t, embed_ok)
        \/ UploadRespond(t)
        \/ \E s \in ThreadedSessions, question \in Questions : AskStart(t, s, question)
        \/ \E fault \in AskFaults :
              \E output \in IF fault = "none" THEN LlmOutputs ELSE {<<>>} :
                  AskRun(t, fault, output)
        \/ \E s \in ThreadedSessions : ClearStart(t, s)
        \/ ClearFinish(t)

SpecThreaded == Init /\ [][NextThreaded]_vars

(* Chunks(index) holds every chunk of chunks, as often as chunks does *)
Occurrences(c, seq) == Cardinality({i \in 1..Len(seq) : seq[i] = c})

Covers(index, chunks) ==
    \A i \in 1..Len(chunks) : Occurrences(chunks[i], chunks) <= Occurrences(chunks[i], index)

NoRequestInFlight == \A t \in RequestSlots : threads[t].pc = "idle"

(* C15: a question asked while uploads of its session run is answered from
   the session's stored index, which is always a whole build, and the index
   it is answered from holds the chunks of every upload of the session that
   had returned success before the question was asked (no clear of the
   session in between). *)
C15_AskSeesReturnedUploads ==
    [][\A t \in RequestSlots :
          (threads[t].pc = "a_run" /\ threads'[t].pc = "idle" /\ response'.code = 200)
              => /\ threads[t].sid \in DOMAIN user_retrievers
                 /\ response'.retriever = user_retrievers[threads[t].sid]
                 /\ Covers(response'.retriever, threads[t].acked)]_vars

(* C19: uploads of one session that run at the same time still leave the
   session with at most three uploaded files. *)
C19_LimitHoldsUnderConcurrency ==
    \A s \in DOMAIN session_data : Len(session_data[s].filenames) <= MaxFiles

(* C20: once no request is running, a session that has an index also has its
   entry in session_data, with at least one uploaded file: a clear that ran
   alongside an upload does not leave an index without its session. *)
C20_NoOrphanIndex ==
    NoRequestInFlight
        => \A s \in DOMAIN user_retrievers :
              /\ s \in DOMAIN session_data
              /\ Len(session_data[s].filenames) >= 1

====
